---- MODULE Spec2Model ----
(***************************************************************************)
(* Eigen-Sandbox front end: the shared WebSocket helper (ws.ts), the       *)
(* components that use it (MatrixPlayground, ChatBar) and the comment      *)
(* threads of FlowingDoc (bubbleMessages store, bubble DOM, handleReply).  *)
(*                                                                         *)
(* All handlers run on the single UI thread, so every handler is one       *)
(* atomic action.  React state written through updateBubbleMessages is     *)
(* modelled at handler boundaries: the queued updaters have been applied   *)
(* in call order and bubbleMessagesRef.current equals the state.           *)
(***************************************************************************)
EXTENDS Integers, Sequences, FiniteSets, TLC

\* ---------------------------------------------------------------- bounds
MaxSockets   == 3   \* WebSocket instances the shared helper may construct
MaxCallbacks == 2   \* whenSocketOpen calls in one run
MaxClock     == 2   \* distinct Date.now() readings (anchor ids sel-1 .. sel-MaxClock)
MaxEvents    == 8   \* FlowingDoc events (selections, submits, frames) in one run
MaxReplies   == 2     \* replies the service sends for one comment
MaxTimers    == 2     \* pending handleMouseUp timers
MaxFrames    == 4   \* inbound frames (message events) in one run

\* ---------------------------------------------------------------- values
Sockets   == 1..MaxSockets
Ids       == 1..MaxClock
Comments  == {"why?"}                  \* trimmed, non-empty comment textarea values
FollowUps == {"how?"}                  \* trimmed, non-empty follow-up textarea values
Replies   == {"because", "again"}      \* text of inbound reply frames
Snippets  == {"eigen"}                 \* non-empty selections
SelectionTexts == {"", " "} \cup Snippets   \* what a selection gesture can leave selected
Narrations == {"Matrix is now singular", "Matrix is a shear"}
ChatInputs == {"hi"}
ChatReplies == {"hello"}               \* text of inbound chat-reply frames

\* A textarea value is a sequence of tokens: whitespace characters and (at
\* most one) word.
Whitespace     == {" ", "\t", "\n"}
CommentValues  == {<<>>, <<" ", "\n">>, <<" ", "why?", "\n">>}
FollowUpValues == {<<"\t">>, <<"how?", " ">>}

\* The matrices the sliders can produce; useState starts with the identity.
IdentityMatrix == "1 0 0 1"
Matrices == {IdentityMatrix, "2 0 0 1", "2 1 0 1"}
NoTimer  == "<no timer>"               \* no debounce timer pending

NoSocket == 0
NoEntry  == [none |-> TRUE]            \* bubbleMessages[id] === undefined
NoReply  == "<undefined>"              \* aiReply: undefined
NoSpan   == "<no span>"                \* document.getElementById(id) === null
NoBubble == [none |-> TRUE]            \* no #bubble-<id> element

NoKind   == "<undefined>"            \* msg.kind === undefined
NoFrame  == [form |-> "none"]          \* the step handled no inbound frame

U(c) == [role |-> "user", content |-> c]
A(c) == [role |-> "ai", content |-> c]

VARIABLES
  mounted,      \* App has been mounted (the mount effects have run)
  ws,           \* ws.ts: the module-level `ws` (NoSocket = null)
  readyState,   \* readyState of every socket instance of the shared helper
  openListeners,\* per socket: the one-shot "open" handlers of whenSocketOpen
  calls,        \* one record per whenSocketOpen call (its callback)
  wsRef,        \* ChatBar's wsRef.current: the socket captured at mount
  docReadyState,\* readyState of FlowingDoc's own socket (wsRef.current)
  now,          \* Date.now()
  bubbleMessages, \* FlowingDoc state (and bubbleMessagesRef.current)
  span,         \* per id: textContent of the highlight span, or NoSpan
  bubble,       \* per id: the bubble element: turns rendered and form shown
  paras,        \* FlowingDoc transcript
  events,       \* number of FlowingDoc events (user events, frames) so far
  frames,       \* number of inbound frames (message events) so far
  malformed,    \* trace variable: a malformed inbound frame has been received
  sel,          \* window.getSelection().toString() ("" when collapsed or empty)
  timers,       \* pending handleMouseUp timers, oldest first: the `range` each captured
  matrix,       \* MatrixPlayground: the matrix [a, b, c, d]
  dragging,     \* MatrixPlayground: a slider is being dragged
  sendTimeout,  \* sendTimeout.current while its timer is pending: the matrix the
                \* timer's closure captured (NoTimer: none pending)
  inbox,        \* the remote service: per targetId the comments it received on the
                \* document's socket, each with the number of replies it sent
  lastOp        \* trace variable: the handler that ran last, the frames it
                \* handed to send() and the inbound frame it was given

chanVars == <<ws, readyState, openListeners, calls, wsRef>>
selVars  == <<sel, timers>>
matVars  == <<matrix, dragging, sendTimeout>>
docVars  == <<now, bubbleMessages, span, bubble, events>>
vars == <<mounted, ws, readyState, openListeners, calls, wsRef,
          docReadyState, now, bubbleMessages, span, bubble, paras, events,
          frames, malformed, sel, timers, matrix, dragging, sendTimeout, inbox, lastOp>>

\* The trace of one handler run: the frames transmitted (sent), every call of
\* send() with the readyState of its socket at that moment (tried), the
\* inbound frame of a message event and the components whose listener acted
\* on it (got).
Trace(o, i, t, out, tried, f, got) ==
  [op |-> o, id |-> i, text |-> t, sent |-> out, tried |-> tried,
   frame |-> f, got |-> got, value |-> <<>>]

Op(o, i, t, out) == Trace(o, i, t, out, {}, NoFrame, {})

\* The trace of a handler that calls send().
SendOp(o, i, t, out, tried) == Trace(o, i, t, out, tried, NoFrame, {})

\* The trace of a form handler: the textarea value it read.
FormOp(o, i, t, value, out, tried) == [SendOp(o, i, t, out, tried) EXCEPT !.value = value]

Last(s) == s[Len(s)]

\* ------------------------------------------------------------ ws.ts
\* (mutant) a socket that is CLOSING is kept.
NeedsNewSocketClosedOnly(w, rs) == w = NoSocket \/ rs[w] = "CLOSED"

\* The condition of getWebSocket under which a new WebSocket is constructed.
NeedsNewSocket(w, rs) == w = NoSocket \/ rs[w] = "CLOSED" \/ rs[w] = "CLOSING"

Unconstructed(rs) == {s \in Sockets : rs[s] = "UNINITIALIZED"}

\* The instance `new WebSocket(url)` yields: the next one not yet constructed.
FreshSocket(rs) == CHOOSE s \in Unconstructed(rs) : \A t \in Unconstructed(rs) : s <= t

\* The run may call getWebSocket (a needed instance is still within MaxSockets).
CanGetWebSocket(w, rs) == NeedsNewSocket(w, rs) => Unconstructed(rs) # {}

\* getWebSocket(): the new values of `ws` and of the sockets' readyState.
GetWebSocket(w, rs) ==
  IF NeedsNewSocket(w, rs)
    THEN [ws |-> FreshSocket(rs),
          readyState |-> [rs EXCEPT ![FreshSocket(rs)] = "CONNECTING"]]
    ELSE [ws |-> w, readyState |-> rs]

\* (mutant) the callback is run inside the call whatever the readyState.
CallsBackAlways(state) == TRUE

\* whenSocketOpen: is the callback run inside the call?
CallsBackNow(state) == state = "OPEN"

\* (mutant) the handler is never attached to the socket's "open" event.
NotRegistered(ls, k) == ls

\* whenSocketOpen: socket.addEventListener("open", handler).
Registered(ls, k) == Append(ls, k)

\* socket.send(frame): OPEN transmits, CONNECTING throws InvalidStateError,
\* CLOSING and CLOSED drop the frame silently.
SendThrows(state) == state = "CONNECTING"
Sent(out, frame, state) == IF state = "OPEN" THEN out \cup {frame} ELSE out

\* A call socket.send(frame), with the readyState of the socket at the call.
Tried(tried, frame, state) == tried \cup {[frame |-> frame, state |-> state]}

\* An outbound frame, with the socket it was handed to (NoSocket: FlowingDoc's own).
Frame(kind, sock, id, text, followup) ==
  [kind |-> kind, sock |-> sock, targetId |-> id, text |-> text, isFollowup |-> followup]

ChatLine(who, text) == [src |-> who, text |-> text]

\* The callback ChatBar.send hands to whenSocketOpen, run on the state st.
ChatCallback(c, st) ==
  LET g     == GetWebSocket(st.ws, st.readyState)
      sock  == IF wsRef # NoSocket THEN wsRef ELSE g.ws
      rs    == IF wsRef # NoSocket THEN st.readyState ELSE g.readyState
      w     == IF wsRef # NoSocket THEN st.ws ELSE g.ws
      frame == Frame("chat", sock, 0, c.text, FALSE)
  IN IF SendThrows(rs[sock])
       THEN [st EXCEPT !.ws = w, !.readyState = rs,
                       !.tried = Tried(st.tried, frame, rs[sock])]
       ELSE [ws |-> w, readyState |-> rs,
             outbox |-> Sent(st.outbox, frame, rs[sock]),
             tried |-> Tried(st.tried, frame, rs[sock]),
             paras |-> Append(st.paras, ChatLine("user", c.text))]

\* The callback of MatrixPlayground's debounce timer.
MatrixCallback(c, st) ==
  LET g     == GetWebSocket(st.ws, st.readyState)
      frame == Frame("matrix", g.ws, 0, c.text, FALSE)
  IN [st EXCEPT !.ws = g.ws, !.readyState = g.readyState,
                !.outbox = Sent(st.outbox, frame, g.readyState[g.ws]),
                !.tried = Tried(st.tried, frame, g.readyState[g.ws])]

RunCallback(c, st) ==
  IF c.who = "chat" THEN ChatCallback(c, st) ELSE MatrixCallback(c, st)

\* Dispatch of a socket's "open" event: its handlers run in registration order.
RECURSIVE RunCallbacks(_, _, _)
RunCallbacks(ks, cs, st) ==
  IF ks = <<>> THEN st
  ELSE RunCallbacks(Tail(ks), cs, RunCallback(cs[Head(ks)], st))

\* The bookkeeping of one invocation of callback k.
Invoked(c, rs) == [c EXCEPT !.fired = c.fired + 1, !.atFire = rs[c.sock]]

InRange(ks, k) == \E i \in 1..Len(ks) : ks[i] = k

\* (mutant) the effect sets its timer also while a slider is dragged.
DebounceEffectIgnoresDrag(drag, v) == v

\* MatrixPlayground's debounce effect, run after a render with matrix v:
\* the cleanup of the run before it has cleared the pending timer; the
\* effect returns at once while a slider is dragged and sets a timer
\* otherwise.  The result is the timer pending afterwards.
DebounceEffect(drag, v) == IF drag THEN NoTimer ELSE v

\* App mount: the effects of MatrixPlayground, FlowingDoc and ChatBar run.
Mount ==
  /\ ~mounted
  /\ CanGetWebSocket(ws, readyState)
  /\ LET g1 == GetWebSocket(ws, readyState)            \* MatrixPlayground effect
         g2 == GetWebSocket(g1.ws, g1.readyState)      \* ChatBar effect
     IN /\ ws' = g2.ws
        /\ readyState' = g2.readyState
        /\ wsRef' = g2.ws
  /\ docReadyState' = "CONNECTING"                     \* FlowingDoc: new WebSocket
  /\ mounted' = TRUE
  /\ lastOp' = Op("mount", 0, "", {})
  /\ sendTimeout' = DebounceEffect(dragging, matrix)   \* the debounce effect's first run
  /\ UNCHANGED <<openListeners, calls, docVars, selVars, inbox, paras, malformed, frames,
                 matrix, dragging>>

\* whenSocketOpen(callback), called by ChatBar.send (who = "chat", text = the
\* input) or by the matrix debounce timer (who = "matrix").
WhenSocketOpen(who, text) ==
  /\ mounted
  /\ Len(calls) < MaxCallbacks
  /\ CanGetWebSocket(ws, readyState)
  /\ LET g  == GetWebSocket(ws, readyState)
         k  == Len(calls) + 1
         c  == [who |-> who, text |-> text, sock |-> g.ws,
                atCall |-> g.readyState[g.ws], fired |-> 0, atFire |-> "none"]
         st == [ws |-> g.ws, readyState |-> g.readyState, outbox |-> {},
                tried |-> {}, paras |-> paras]
     IN IF CallsBackNow(g.readyState[g.ws])
          THEN LET r == RunCallback(c, st)
               IN /\ calls' = Append(calls, Invoked(c, g.readyState))
                  /\ ws' = r.ws /\ readyState' = r.readyState
                  /\ paras' = r.paras
                  /\ lastOp' = SendOp("whenSocketOpen", 0, who, r.outbox, r.tried)
                  /\ UNCHANGED openListeners
          ELSE /\ calls' = Append(calls, c)
               /\ openListeners' = [openListeners EXCEPT ![g.ws] = Registered(@, k)]
               /\ ws' = g.ws /\ readyState' = g.readyState
               /\ lastOp' = Op("whenSocketOpen", 0, who, {})
               /\ UNCHANGED paras
  /\ UNCHANGED <<mounted, inbox, matrix, dragging, selVars, malformed, frames, wsRef, docReadyState, docVars>>

ChatSend == (\E t \in ChatInputs : WhenSocketOpen("chat", t)) /\ UNCHANGED sendTimeout

\* The debounce timer fires, 150 ms after the effect run that set it: its
\* closure sends the matrix of that render.
MatrixSend ==
  /\ sendTimeout # NoTimer
  /\ WhenSocketOpen("matrix", sendTimeout)
  /\ sendTimeout' = NoTimer

\* A slider's onChange: setM re-renders, the effect's cleanup clears the
\* pending timer and the effect sets a new one unless a slider is dragged.
SliderChange(v) ==
  /\ mounted
  /\ v # matrix
  /\ matrix' = v
  /\ sendTimeout' = DebounceEffect(dragging, v)
  /\ lastOp' = Op("change", 0, v, {})
  /\ UNCHANGED <<mounted, inbox, dragging, selVars, malformed, frames, chanVars,
                 docReadyState, docVars, paras>>

\* onMouseDown / onTouchStart of a slider: setDragging(true) re-runs the
\* effect, whose cleanup clears the pending timer.
HandleDragStart ==
  /\ mounted
  /\ ~dragging
  /\ dragging' = TRUE
  /\ sendTimeout' = DebounceEffect(TRUE, matrix)
  /\ lastOp' = Op("dragStart", 0, matrix, {})
  /\ UNCHANGED <<mounted, inbox, matrix, selVars, malformed, frames, chanVars,
                 docReadyState, docVars, paras>>

\* onMouseUp / onTouchEnd of a slider: setDragging(false) re-runs the
\* effect, which sets the timer for the current matrix.
HandleDragEnd ==
  /\ mounted
  /\ dragging
  /\ dragging' = FALSE
  /\ sendTimeout' = DebounceEffect(FALSE, matrix)
  /\ lastOp' = Op("dragEnd", 0, matrix, {})
  /\ UNCHANGED <<mounted, inbox, matrix, selVars, malformed, frames, chanVars,
                 docReadyState, docVars, paras>>

\* The browser opens socket s: readyState OPEN, then the "open" event.
SocketOpen(s) ==
  /\ readyState[s] = "CONNECTING"
  /\ LET rs == [readyState EXCEPT ![s] = "OPEN"]
         st == [ws |-> ws, readyState |-> rs, outbox |-> {}, tried |-> {},
                paras |-> paras]
         r  == RunCallbacks(openListeners[s], calls, st)
     IN /\ ws' = r.ws /\ readyState' = r.readyState
        /\ paras' = r.paras
        /\ lastOp' = SendOp("open", s, "", r.outbox, r.tried)
        /\ calls' = [k \in 1..Len(calls) |->
                       IF InRange(openListeners[s], k) THEN Invoked(calls[k], rs) ELSE calls[k]]
  /\ openListeners' = [openListeners EXCEPT ![s] = <<>>]
  /\ UNCHANGED <<mounted, inbox, matVars, selVars, malformed, frames, wsRef, docReadyState, docVars>>

\* The closing handshake starts on socket s.
SocketClosing(s) ==
  /\ readyState[s] = "OPEN"
  /\ readyState' = [readyState EXCEPT ![s] = "CLOSING"]
  /\ lastOp' = Op("closing", s, "", {})
  /\ UNCHANGED <<mounted, inbox, matVars, selVars, malformed, frames, ws, openListeners, calls, wsRef, docReadyState, docVars, paras>>

\* Socket s fails to connect, or its connection ends.
SocketClosed(s) ==
  /\ readyState[s] \in {"CONNECTING", "OPEN", "CLOSING"}
  /\ readyState' = [readyState EXCEPT ![s] = "CLOSED"]
  /\ lastOp' = Op("closed", s, "", {})
  /\ UNCHANGED <<mounted, inbox, matVars, selVars, malformed, frames, ws, openListeners, calls, wsRef, docReadyState, docVars, paras>>

\* The same transitions of FlowingDoc's own socket (it has no "open" work).
DocSocketOpen ==
  /\ docReadyState = "CONNECTING"
  /\ docReadyState' = "OPEN"
  /\ lastOp' = Op("docOpen", 0, "", {})
  /\ UNCHANGED <<mounted, inbox, matVars, selVars, malformed, frames, chanVars, docVars, paras>>

DocSocketClosing ==
  /\ docReadyState = "OPEN"
  /\ docReadyState' = "CLOSING"
  /\ lastOp' = Op("docClosing", 0, "", {})
  /\ UNCHANGED <<mounted, inbox, matVars, selVars, malformed, frames, chanVars, docVars, paras>>

DocSocketClosed ==
  /\ docReadyState \in {"CONNECTING", "OPEN", "CLOSING"}
  /\ docReadyState' = "CLOSED"
  /\ lastOp' = Op("docClosed", 0, "", {})
  /\ UNCHANGED <<mounted, inbox, matVars, selVars, malformed, frames, chanVars, docVars, paras>>

\* --------------------------------------------------- inbound frames
\* The data of a message event.  form: "object" (the text is a JSON object),
\* "invalid" (the text is not JSON: the kind it was meant to carry cannot be
\* read) or "null" (the text is the JSON value null).  An object without a
\* kind field has kind NoKind; a JSON number, string or array reads the same
\* way (msg.kind is undefined and nothing is thrown).
InFrame(form, kind, id, text) ==
  [form |-> form, kind |-> kind, targetId |-> id, text |-> text]

MatrixFrame(t)    == InFrame("object", "matrix", 0, t)
ChatReplyFrame(t) == InFrame("object", "chat-reply", 0, t)
ReplyFrame(i, t)  == InFrame("object", "reply", i, t)
UnknownFrame      == InFrame("object", "pong", 0, "")

\* Frames of the outbound kinds, should the service send one back.
EchoFrames ==
  {InFrame("object", "comment", 1, "why?"), InFrame("object", "chat", 0, "hi")}

\* The kinds a listener has a branch for.
ConsumedKinds == {"matrix", "chat-reply", "reply"}

WellFormedFrames ==
  {MatrixFrame(t) : t \in Narrations} \cup {ChatReplyFrame(t) : t \in ChatReplies}
    \cup {ReplyFrame(i, t) : i \in Ids, t \in Replies} \cup {UnknownFrame}
    \cup EchoFrames

MalformedFrames ==
  {InFrame("invalid", "matrix", 0, "Matrix is"),     \* cut-off JSON text
   InFrame("null", NoKind, 0, ""),                   \* null
   InFrame("object", NoKind, 0, "Matrix is")}        \* {"text": ...}

InboundFrames == WellFormedFrames \cup MalformedFrames

\* JSON.parse(ev.data) throws a SyntaxError, or msg.kind a TypeError.
Throws(f) == f.form \in {"invalid", "null"}

\* (mutant) the kind is taken from the raw text without parsing it.
KindOfUnparsed(f) == f.kind

\* The value the listeners compare: msg.kind of the parsed frame.  A listener
\* that throws takes no branch.
KindOf(f) == IF Throws(f) THEN NoKind ELSE f.kind

\* The components whose "message" listener is attached to shared socket s:
\* MatrixPlayground and ChatBar attach theirs, once, to the socket
\* getWebSocket() returned in their mount effect.
Listeners(s) == IF s = wsRef THEN {"MatrixPlayground", "ChatBar"} ELSE {}

\* (mutant) handleMsg takes every frame that is not a chat-reply for a
\* narration.
ActsOnUnknownKinds(c, f) ==
  \/ c = "MatrixPlayground" /\ KindOf(f) \notin {"chat-reply", NoKind}
  \/ c = "ChatBar" /\ KindOf(f) = "chat-reply"

\* The branch of each listener: handleMsg acts on "matrix", ChatBar's handler
\* on "chat-reply".
Acts(c, f) ==
  \/ c = "MatrixPlayground" /\ KindOf(f) = "matrix"
  \/ c = "ChatBar" /\ KindOf(f) = "chat-reply"

\* The listeners that act on frame f arriving on shared socket s.
Receivers(s, f) == {c \in Listeners(s) : Acts(c, f)}

\* ------------------------------------------------------- FlowingDoc
\* String.prototype.trim on a textarea value.
RECURSIVE TrimStart(_)
TrimStart(v) == IF v # <<>> /\ Head(v) \in Whitespace THEN TrimStart(Tail(v)) ELSE v

RECURSIVE TrimEnd(_)
TrimEnd(v) ==
  IF v # <<>> /\ v[Len(v)] \in Whitespace THEN TrimEnd(SubSeq(v, 1, Len(v) - 1)) ELSE v

\* (mutant) the value is used as typed.
TrimNothing(v) == v

Trim(v) == TrimEnd(TrimStart(v))

\* The string a trimmed value denotes ("" is falsy in the handlers' tests).
Text(v) == IF v = <<>> THEN "" ELSE v[1]

Entry(uc, ai, hist) == [userComment |-> uc, aiReply |-> ai, conversationHistory |-> hist]

\* conversationHistory is optional in the source and every reader takes
\* `conversationHistory || []`: an absent history is modelled as <<>>.
History(e) == IF e = NoEntry THEN <<>> ELSE e.conversationHistory

\* The state entry createCommentBubble initialises.
DraftEntry == Entry("", NoReply, <<>>)

\* The optimistic entry of commentForm.onsubmit.
InitialConversation(c) == Entry(c, NoReply, <<U(c)>>)

\* The `bubbleMessages` that updateBubbleContent closes over.  The mouseup
\* listener is registered once, by a mount effect, so createCommentBubble,
\* its onsubmit handler and the updateBubbleContent they call all belong to
\* the first render, whose bubbleMessages is the initial state {} and whose
\* activeBubbleId is null.
MountBubbleMessages == [i \in Ids |-> NoEntry]

\* updateBubbleContent: the bubbleData it renders.
BubbleData(closure, id, userMessage) ==
  IF closure[id] = NoEntry THEN Entry(userMessage, NoReply, <<>>) ELSE closure[id]

\* updateBubbleContent: the value its updater leaves in the store for id.
UpdateBubbleContentStore(closure, prev, id, userMessage) ==
  IF closure[id] = NoEntry THEN BubbleData(closure, id, userMessage)
  ELSE IF userMessage # "" /\ prev # NoEntry THEN [prev EXCEPT !.userComment = userMessage]
  ELSE prev

\* updateBubbleContent: the turns it renders for bubbleData (history, or the
\* legacy userComment / aiReply pair).
RenderedTurns(d) ==
  IF d.conversationHistory # <<>> THEN d.conversationHistory
  ELSE <<U(d.userComment)>> \o (IF d.aiReply # NoReply THEN <<A(d.aiReply)>> ELSE <<>>)

\* The status the bubble code derives from an entry: a reply has been
\* received (aiReply set), a comment awaits its reply (the condition of the
\* "AI is responding..." indicator), or no comment was entered yet.
Status(e) ==
  IF e.aiReply # NoReply THEN "SETTLED"
  ELSE IF e.userComment # "" THEN "PENDING"
  ELSE "DRAFT"

\* The store entry after commentForm.onsubmit: its own updater, then the
\* updater of the updateBubbleContent call it makes.
SubmitStore(prev, id, c) ==
  UpdateBubbleContentStore(MountBubbleMessages, InitialConversation(c), id, c)

\* (mutant) the reply is appended without the corrective user turn.
ReplyDisplayNoRepair(cur, text) ==
  IF History(cur) = <<>> THEN <<U(IF cur = NoEntry THEN "" ELSE cur.userComment), A(text)>>
  ELSE Append(History(cur), A(text))

\* handleReply: the conversation it renders into the bubble.
ReplyDisplay(cur, text) ==
  LET userComment == IF cur = NoEntry THEN "" ELSE cur.userComment
      prevHistory == History(cur)
  IN IF prevHistory = <<>> THEN <<U(userComment), A(text)>>
     ELSE IF Last(prevHistory).role = "user" THEN Append(prevHistory, A(text))
     ELSE prevHistory \o <<U(userComment), A(text)>>

\* (mutant) the reply is appended without looking at the last role.
ReplyHistoryAlwaysAppend(target, text) ==
  IF target.conversationHistory = <<>> /\ target.userComment # ""
    THEN <<U(target.userComment), A(text)>>
    ELSE IF target.conversationHistory # <<>>
      THEN Append(target.conversationHistory, A(text))
      ELSE target.conversationHistory

\* (mutant) a reply to a settled thread overwrites the last assistant turn.
ReplyHistoryReplaceLast(target, text) ==
  LET h == target.conversationHistory
  IN IF h = <<>> /\ target.userComment # "" THEN <<U(target.userComment), A(text)>>
     ELSE IF h # <<>> /\ Last(h).role = "user" THEN Append(h, A(text))
     ELSE IF h # <<>> THEN [h EXCEPT ![Len(h)] = A(text)]
     ELSE h

\* handleReply: the history its state updater stores for an existing entry.
ReplyHistory(target, text) ==
  LET h == target.conversationHistory
  IN IF h = <<>> /\ target.userComment # "" THEN <<U(target.userComment), A(text)>>
     ELSE IF h # <<>> /\ Last(h).role = "user" THEN Append(h, A(text))
     ELSE h

\* (mutant) a reply for an id without entry is dropped.
ReplyStateUpdateDropsOrphan(target, text, spanText) ==
  IF target # NoEntry
    THEN [target EXCEPT !.aiReply = text, !.conversationHistory = ReplyHistory(target, text)]
    ELSE target

\* handleReply: the entry its state updater leaves for targetId.
ReplyStateUpdate(target, text, spanText) ==
  IF target # NoEntry
    THEN [target EXCEPT !.aiReply = text, !.conversationHistory = ReplyHistory(target, text)]
    ELSE Entry(spanText, text, <<U(spanText), A(text)>>)

\* document.getElementById(id)?.textContent || ""
SpanText(sp, id) == IF sp[id] = NoSpan THEN "" ELSE sp[id]

\* handleReply's follow-up click handler: the entry it stores.
FollowUpEntry(cur, followUpText) ==
  Entry(followUpText, NoReply, Append(History(cur), U(followUpText)))

\* handleReply's follow-up click handler: the bubble after the click (the
\* form is removed, the follow-up is appended).
FollowUpBubble(b, followUpText) ==
  [shown |-> Append(b.shown, U(followUpText)), form |-> "none"]

\* What wsRef.current.send does with a comment frame.
DocSend(frame) == Sent({}, frame, docReadyState)
DocTried(frame) == Tried({}, frame, docReadyState)

\* The service's inbox after the frames `out` were transmitted to it.
Received(out) ==
  [i \in Ids |->
     IF \E fr \in out : fr.targetId = i
       THEN Append(inbox[i], [text |-> (CHOOSE fr \in out : fr.targetId = i).text,
                              replies |-> 0])
       ELSE inbox[i]]

Tick ==
  /\ now < MaxClock
  /\ now' = now + 1
  /\ lastOp' = Op("tick", 0, "", {})
  /\ UNCHANGED <<mounted, inbox, matVars, selVars, malformed, frames, chanVars, docReadyState, bubbleMessages, span, bubble, paras, events>>

\* A Range object: the text it spans now (range.toString()) and whether it
\* is the range of the window's selection (sel.getRangeAt(0) returns the
\* selection's own range, which follows the selection while it stays so).
Range(text, live) == [text |-> text, live |-> live]

\* The string as a sequence of tokens.
Tokens(str) == IF str = "" THEN <<>> ELSE <<str>>

\* The captured ranges after the user changes the selection: the browser
\* either moves the selection's Range object or gives the selection a new one.
Reselected(rs, text) ==
  { [k \in DOMAIN rs |->
       IF rs[k].live
         THEN IF moved THEN Range(text, TRUE) ELSE Range(rs[k].text, FALSE)
         ELSE rs[k]] : moved \in BOOLEAN }

\* The captured ranges after range.surroundContents(span) and
\* removeAllRanges(): the same object still spans the wrapped text, another
\* range over the extracted text is collapsed, and none belongs to the
\* selection any more.
AfterSurround(rs, range) ==
  [k \in DOMAIN rs |->
     IF rs[k].live /\ range.live THEN Range(range.text, FALSE)
     ELSE IF rs[k].text = range.text THEN Range("", FALSE)
     ELSE Range(rs[k].text, FALSE)]

\* The captured ranges after React rewrote the paragraph text: every
\* boundary point in the replaced text moves to its start.
Collapsed(rs) == [k \in DOMAIN rs |-> Range("", rs[k].live)]

\* handleMouseUp, for a selection gesture in the document that leaves
\* `text` selected ("" = a click: the selection is collapsed).
HandleMouseUp(text) ==
  /\ mounted
  /\ events < MaxEvents
  /\ paras # <<>>
  /\ sel' = text
  /\ \E rs \in Reselected(timers, text) :
        IF text = ""
          THEN timers' = rs
          ELSE /\ Len(timers) < MaxTimers
               /\ timers' = Append(rs, Range(text, TRUE))
  /\ lastOp' = Op("mouseUp", 0, text, {})
  /\ events' = events + 1
  /\ UNCHANGED <<mounted, inbox, matVars, malformed, frames, chanVars, docReadyState, now,
                 bubbleMessages, span, bubble, paras>>

\* createCommentOnSelection(range) -> createCommentBubble.
CreateComment(range, pending) ==
  LET id == now
      highlighted == range.text
  IN /\ \E t \in {highlighted} \cup ({span[id]} \ {NoSpan}) :
          span' = [span EXCEPT ![id] = t]
     /\ bubbleMessages' = [bubbleMessages EXCEPT ![id] = DraftEntry]
     /\ bubble' = [bubble EXCEPT ![id] = [shown |-> <<>>, form |-> "comment"]]
     /\ sel' = ""
     /\ timers' = AfterSurround(pending, range)
     /\ lastOp' = Op("createComment", id, highlighted, {})

\* The timer handleMouseUp set, 200 ms after the mouseup: it tests the
\* selection as it is now and uses the range captured at the mouseup.
SelectionTimer ==
  /\ mounted
  /\ events < MaxEvents
  /\ timers # <<>>
  /\ LET range == Head(timers)
         selectedText == Text(Trim(Tokens(sel)))
     IN IF selectedText = ""
          THEN /\ timers' = Tail(timers)
               /\ lastOp' = Op("timerIgnored", 0, range.text, {})
               /\ UNCHANGED <<sel, bubbleMessages, span, bubble>>
          ELSE CreateComment(range, Tail(timers))
  /\ events' = events + 1
  /\ UNCHANGED <<mounted, inbox, matVars, malformed, frames, chanVars, docReadyState, now, paras>>

\* handleMouseUp and its timer with nothing in between, for a non-empty
\* selection inside the document.
CreateCommentOnSelection(highlighted) ==
  /\ mounted
  /\ events < MaxEvents
  /\ paras # <<>>
  /\ timers = <<>>
  /\ CreateComment(Range(highlighted, TRUE), <<>>)
  /\ events' = events + 1
  /\ UNCHANGED <<mounted, inbox, matVars, malformed, frames, chanVars, docReadyState, now, paras>>

\* commentForm.onsubmit with the textarea holding `value`.
SubmitComment(id, value) ==
  /\ mounted
  /\ events < MaxEvents
  /\ bubble[id] # NoBubble
  /\ bubble[id].form = "comment"
  /\ LET commentText == Text(Trim(value))
     IN IF commentText = ""
          THEN /\ UNCHANGED <<bubbleMessages, bubble, inbox>>
               /\ lastOp' = FormOp("submitIgnored", id, "", value, {}, {})
          ELSE /\ bubbleMessages' =
                    [bubbleMessages EXCEPT ![id] = SubmitStore(@, id, commentText)]
               /\ bubble' = [bubble EXCEPT ![id] =
                    [shown |-> RenderedTurns(BubbleData(MountBubbleMessages, id, commentText)),
                     form |-> "none"]]
               /\ lastOp' = FormOp("submit", id, commentText, value,
                      DocSend(Frame("comment", NoSocket, id, commentText, FALSE)),
                      DocTried(Frame("comment", NoSocket, id, commentText, FALSE)))
               /\ inbox' = Received(DocSend(Frame("comment", NoSocket, id, commentText, FALSE)))
  /\ events' = events + 1
  /\ UNCHANGED <<mounted, selVars, matVars, malformed, frames, chanVars, docReadyState, now, span, paras>>

\* ws.onmessage of FlowingDoc with a frame of kind "reply": handleReply(msg).
OnReply(targetId, text) ==
  /\ mounted
  /\ events < MaxEvents
  /\ frames < MaxFrames
  /\ docReadyState = "OPEN"
  /\ bubble' = IF bubble[targetId] # NoBubble
                 THEN [bubble EXCEPT ![targetId] =
                         [shown |-> ReplyDisplay(bubbleMessages[targetId], text),
                          form |-> "followup"]]
                 ELSE bubble
  /\ bubbleMessages' = [bubbleMessages EXCEPT ![targetId] =
                          ReplyStateUpdate(@, text, SpanText(span, targetId))]
  /\ lastOp' = Trace("reply", targetId, text, {}, {}, ReplyFrame(targetId, text),
                    {"FlowingDoc"})
  /\ events' = events + 1
  /\ frames' = frames + 1
  /\ UNCHANGED <<mounted, selVars, matVars, malformed, chanVars, docReadyState, now, span, paras>>

\* A reply frame of any content arrives for targetId.
HandleReply(targetId, text) == OnReply(targetId, text) /\ UNCHANGED inbox

\* The reply text the service produces for a comment.
AnswerTo(q) == IF q \in Comments THEN "because" ELSE "again"

\* The service sends one more reply to the k-th comment it received for
\* targetId, and the frame arrives.
ServiceReply(targetId, k) ==
  /\ k \in DOMAIN inbox[targetId]
  /\ inbox[targetId][k].replies < MaxReplies
  /\ OnReply(targetId, AnswerTo(inbox[targetId][k].text))
  /\ inbox' = [inbox EXCEPT ![targetId][k].replies = @ + 1]

\* The same for a service that answers every comment once, in the order
\* it received them.
ServiceReplyOnce(targetId, k) ==
  /\ k \in DOMAIN inbox[targetId]
  /\ inbox[targetId][k].replies = 0
  /\ \A j \in 1..(k - 1) : inbox[targetId][j].replies = 1
  /\ ServiceReply(targetId, k)

\* Click on the Reply button handleReply built, the textarea holding `value`.
FollowUpSubmit(targetId, value) ==
  /\ mounted
  /\ events < MaxEvents
  /\ bubble[targetId] # NoBubble
  /\ bubble[targetId].form = "followup"
  /\ LET followUpText == Text(Trim(value))
     IN IF followUpText = ""
          THEN /\ UNCHANGED <<bubbleMessages, bubble, inbox>>
               /\ lastOp' = FormOp("followupIgnored", targetId, "", value, {}, {})
          ELSE /\ bubbleMessages' =
                    [bubbleMessages EXCEPT ![targetId] = FollowUpEntry(@, followUpText)]
               /\ bubble' = [bubble EXCEPT ![targetId] = FollowUpBubble(@, followUpText)]
               /\ lastOp' = FormOp("followup", targetId, followUpText, value,
                      DocSend(Frame("comment", NoSocket, targetId, followUpText, TRUE)),
                      DocTried(Frame("comment", NoSocket, targetId, followUpText, TRUE)))
               /\ inbox' = Received(DocSend(Frame("comment", NoSocket, targetId, followUpText, TRUE)))
  /\ events' = events + 1
  /\ UNCHANGED <<mounted, selVars, matVars, malformed, frames, chanVars, docReadyState, now, span, paras>>

\* The spans a re-render of the transcript leaves in the document: React
\* rewrites a paragraph whose text changes and drops the paragraphs after the
\* first, so only spans of an unchanged first paragraph can survive.
SurvivingSpans(ps, line) ==
  IF ps # <<>> /\ ps[1] = line
    THEN SUBSET {i \in Ids : span[i] # NoSpan}
    ELSE {{}}

\* narrativeHandler, run for the "narrative" window event handleMsg
\* dispatches.  The bubbles are children of document.body, outside docRef:
\* querySelectorAll finds none and none is removed.
NarrativeHandler(text) ==
  /\ paras' = <<ChatLine("narration", text)>>
  /\ \E keep \in SurvivingSpans(paras, ChatLine("narration", text)) :
        span' = [i \in Ids |-> IF i \in keep THEN span[i] ELSE NoSpan]
  /\ IF paras # <<>> /\ paras[1] = ChatLine("narration", text)
       THEN UNCHANGED selVars
       ELSE sel' = "" /\ timers' = Collapsed(timers)
  /\ bubbleMessages' = [i \in Ids |-> NoEntry]
  /\ UNCHANGED bubble

\* (mutant) the appended line replaces the transcript.
AppendHandlerReplaces(line) ==
  /\ paras' = <<line>>
  /\ UNCHANGED <<bubbleMessages, span, bubble, selVars>>

\* appendHandler, run for a "doc-append" window event.
AppendHandler(line) ==
  /\ paras' = Append(paras, line)
  /\ UNCHANGED <<bubbleMessages, span, bubble, selVars>>

\* A message event on shared socket s: each listener attached to s parses
\* the frame and runs its branch.
SocketMessage(s, f) ==
  /\ mounted
  /\ events < MaxEvents
  /\ frames < MaxFrames
  /\ readyState[s] = "OPEN"
  /\ IF "MatrixPlayground" \in Receivers(s, f) THEN NarrativeHandler(f.text)
     ELSE IF "ChatBar" \in Receivers(s, f)
       THEN AppendHandler(ChatLine("assistant", f.text))
       ELSE UNCHANGED <<paras, bubbleMessages, span, bubble, selVars>>
  /\ malformed' = (malformed \/ f \in MalformedFrames)
  /\ lastOp' = Trace("message", s, f.text, {}, {}, f, Receivers(s, f))
  /\ events' = events + 1
  /\ frames' = frames + 1
  /\ UNCHANGED <<mounted, inbox, matVars, chanVars, docReadyState, now>>

\* ws.onmessage of FlowingDoc with a frame of another kind than "reply": a
\* "chat-reply" is appended to the transcript, anything else (and a frame
\* whose parsing throws, which the handler catches) is ignored.
OnMessage(f) ==
  /\ mounted
  /\ events < MaxEvents
  /\ frames < MaxFrames
  /\ docReadyState = "OPEN"
  /\ KindOf(f) # "reply"
  /\ paras' = IF KindOf(f) = "chat-reply"
                THEN Append(paras, ChatLine("assistant", f.text))
                ELSE paras
  /\ malformed' = (malformed \/ f \in MalformedFrames)
  /\ lastOp' = Trace("docMessage", 0, f.text, {}, {}, f,
                    IF KindOf(f) = "chat-reply" THEN {"FlowingDoc"} ELSE {})
  /\ events' = events + 1
  /\ frames' = frames + 1
  /\ UNCHANGED <<mounted, inbox, matVars, selVars, chanVars, docReadyState, now, bubbleMessages, span, bubble>>

Init ==
  /\ mounted = FALSE
  /\ ws = NoSocket
  /\ readyState = [s \in Sockets |-> "UNINITIALIZED"]
  /\ openListeners = [s \in Sockets |-> <<>>]
  /\ calls = <<>>
  /\ wsRef = NoSocket
  /\ docReadyState = "UNINITIALIZED"
  /\ now = 1
  /\ bubbleMessages = [i \in Ids |-> NoEntry]
  /\ span = [i \in Ids |-> NoSpan]
  /\ bubble = [i \in Ids |-> NoBubble]
  /\ paras = <<>>
  /\ events = 0
  /\ frames = 0
  /\ malformed = FALSE
  /\ sel = ""
  /\ timers = <<>>
  /\ inbox = [i \in Ids |-> <<>>]
  /\ matrix = IdentityMatrix
  /\ dragging = FALSE
  /\ sendTimeout = NoTimer
  /\ lastOp = Op("init", 0, "", {})

NextChannel ==
  \/ Mount
  \/ ChatSend
  \/ MatrixSend
  \/ \E s \in Sockets : SocketOpen(s)
  \/ \E s \in Sockets : SocketClosing(s)
  \/ \E s \in Sockets : SocketClosed(s)
  \/ DocSocketOpen
  \/ DocSocketClosing
  \/ DocSocketClosed

SpecChannel == Init /\ [][NextChannel]_vars

\* The same with the event loop eventually running whatever step is possible.
\* MatrixPlayground's sliders and debounce timer on the shared channel.
NextMatrix ==
  \/ Mount
  \/ MatrixSend
  \/ \E v \in Matrices : SliderChange(v)
  \/ HandleDragStart
  \/ HandleDragEnd
  \/ \E s \in Sockets : SocketOpen(s)
  \/ \E s \in Sockets : SocketClosed(s)

SpecMatrix == Init /\ [][NextMatrix]_vars

SpecChannelLive == SpecChannel /\ WF_vars(NextChannel)

NextDoc ==
  \/ Mount
  \/ \E s \in Sockets : SocketOpen(s)
  \/ DocSocketOpen
  \/ DocSocketClosed
  \/ Tick
  \/ \E h \in Snippets : CreateCommentOnSelection(h)
  \/ \E i \in Ids, c \in Comments : SubmitComment(i, <<c>>)
  \/ \E i \in Ids, t \in Replies : HandleReply(i, t)
  \/ \E i \in Ids, c \in FollowUps : FollowUpSubmit(i, <<c>>)
  \/ \E s \in Sockets, t \in Narrations : SocketMessage(s, MatrixFrame(t))

SpecDoc == Init /\ [][NextDoc]_vars

\* The message listeners of the shared channel and of FlowingDoc's socket,
\* with the chat sends and the reconnects of the shared channel.
\* The document with selection gestures and their timers.
NextSelect ==
  \/ Mount
  \/ \E s \in Sockets : SocketOpen(s)
  \/ Tick
  \/ \E t \in SelectionTexts : HandleMouseUp(t)
  \/ SelectionTimer
  \/ \E s \in Sockets, t \in Narrations : SocketMessage(s, MatrixFrame(t))

SpecSelect == Init /\ [][NextSelect]_vars

\* The document and the remote service, which sends up to MaxReplies
\* replies for each comment it received.
NextReplies ==
  \/ Mount
  \/ \E s \in Sockets : SocketOpen(s)
  \/ DocSocketOpen
  \/ Tick
  \/ \E h \in Snippets : CreateCommentOnSelection(h)
  \/ \E i \in Ids, v \in CommentValues : SubmitComment(i, v)
  \/ \E i \in Ids, v \in FollowUpValues : FollowUpSubmit(i, v)
  \/ \E i \in Ids, k \in 1..MaxEvents : ServiceReply(i, k)
  \/ \E s \in Sockets, t \in Narrations : SocketMessage(s, MatrixFrame(t))

SpecReplies == Init /\ [][NextReplies]_vars

\* The document and a service that sends exactly one reply for every
\* comment it received; the document's socket eventually opens and every
\* reply the service owes is eventually delivered.
NextRepliesOnce ==
  \/ Mount
  \/ \E s \in Sockets : SocketOpen(s)
  \/ DocSocketOpen
  \/ \E h \in Snippets : CreateCommentOnSelection(h)
  \/ \E i \in Ids, c \in Comments : SubmitComment(i, <<c>>)
  \/ \E i \in Ids, c \in FollowUps : FollowUpSubmit(i, <<c>>)
  \/ \E i \in Ids, k \in 1..MaxEvents : ServiceReplyOnce(i, k)
  \/ \E s \in Sockets, t \in Narrations : SocketMessage(s, MatrixFrame(t))

SpecRepliesOnce ==
  /\ Init /\ [][NextRepliesOnce]_vars
  /\ WF_vars(DocSocketOpen)
  /\ WF_vars(\E i \in Ids, k \in 1..MaxEvents : ServiceReplyOnce(i, k))

NextRouter ==
  \/ Mount
  \/ ChatSend
  \/ \E s \in Sockets : SocketOpen(s)
  \/ \E s \in Sockets : SocketClosed(s)
  \/ DocSocketOpen
  \/ \E s \in Sockets, f \in InboundFrames : SocketMessage(s, f)
  \/ \E f \in InboundFrames : OnMessage(f)

SpecRouter == Init /\ [][NextRouter]_vars

\* Every inbound frame, well-formed or not, on both sockets while anchors
\* and threads exist.
NextFrames ==
  \/ Mount
  \/ \E s \in Sockets : SocketOpen(s)
  \/ DocSocketOpen
  \/ \E h \in Snippets : CreateCommentOnSelection(h)
  \/ \E i \in Ids, c \in Comments : SubmitComment(i, <<c>>)
  \/ \E i \in Ids, t \in Replies : HandleReply(i, t)
  \/ \E s \in Sockets, f \in InboundFrames : SocketMessage(s, f)
  \/ \E f \in InboundFrames : OnMessage(f)

SpecFrames == Init /\ [][NextFrames]_vars

Next ==
  \/ Mount
  \/ ChatSend
  \/ MatrixSend
  \/ \E s \in Sockets : SocketOpen(s)
  \/ \E s \in Sockets : SocketClosing(s)
  \/ \E s \in Sockets : SocketClosed(s)
  \/ DocSocketOpen
  \/ DocSocketClosing
  \/ DocSocketClosed
  \/ Tick
  \/ \E h \in Snippets : CreateCommentOnSelection(h)
  \/ \E i \in Ids, v \in CommentValues : SubmitComment(i, v)
  \/ \E i \in Ids, t \in Replies : HandleReply(i, t)
  \/ \E i \in Ids, v \in FollowUpValues : FollowUpSubmit(i, v)
  \/ \E s \in Sockets, f \in InboundFrames : SocketMessage(s, f)
  \/ \E f \in InboundFrames : OnMessage(f)
  \/ \E t \in SelectionTexts : HandleMouseUp(t)
  \/ SelectionTimer
  \/ \E i \in Ids, k \in 1..MaxEvents : ServiceReply(i, k)
  \/ \E v \in Matrices : SliderChange(v)
  \/ HandleDragStart
  \/ HandleDragEnd

Spec == Init /\ [][Next]_vars


\* ------------------------------------------------------------ claims
Alternates(h) ==
  \A k \in 1..Len(h) : h[k].role = (IF k % 2 = 1 THEN "user" ELSE "ai")

ReplyStep(i) == lastOp'.op = "reply" /\ lastOp'.id = i
SubmitStep(i) == lastOp'.op = "submit" /\ lastOp'.id = i

LastIs(e, r) == e # NoEntry /\ History(e) # <<>> /\ Last(History(e)).role = r

\* The content of the most recent user turn of h.
RECURSIVE LastUserContent(_)
LastUserContent(h) ==
  IF h = <<>> THEN ""
  ELSE IF Last(h).role = "user" THEN Last(h).content
  ELSE LastUserContent(SubSeq(h, 1, Len(h) - 1))

\* C1: in every reachable state the turns of every stored thread alternate
\* user, ai, user, ... and a non-empty thread starts with a user turn.
C1_TurnsAlternate ==
  \A i \in Ids : Alternates(History(bubbleMessages[i]))

\* C1 witness: a thread with two full exchanges on which a further
\* (duplicate) reply with another text has been processed.
C1_Witness ==
  \E i \in Ids :
    /\ bubbleMessages[i] # NoEntry
    /\ Len(History(bubbleMessages[i])) = 4
    /\ lastOp.op = "reply" /\ lastOp.id = i
    /\ Last(History(bubbleMessages[i])).content # lastOp.text

\* C2: a reply applied to an existing thread whose last turn is an assistant
\* turn leaves the stored turn sequence and the status as they were.
C2_DuplicateReplyDiscarded ==
  [][\A i \in Ids :
       (ReplyStep(i) /\ LastIs(bubbleMessages[i], "ai"))
         => /\ History(bubbleMessages'[i]) = History(bubbleMessages[i])
            /\ Status(bubbleMessages'[i]) = Status(bubbleMessages[i])]_vars

\* C2 witness: a reply with another text was just processed on a settled
\* two-turn thread, which still ends with the first reply.
C2_Witness ==
  \E i \in Ids :
    /\ lastOp.op = "reply" /\ lastOp.id = i
    /\ LastIs(bubbleMessages[i], "ai")
    /\ Len(History(bubbleMessages[i])) = 2
    /\ History(bubbleMessages[i])[1].content \in Comments
    /\ bubbleMessages[i].aiReply = lastOp.text
    /\ Last(History(bubbleMessages[i])).content # lastOp.text

C4_StatusMatchesTurns ==
  \A i \in Ids :
    bubbleMessages[i] # NoEntry =>
      LET e == bubbleMessages[i]
      IN /\ (Status(e) = "DRAFT") <=> (History(e) = <<>>)
         /\ (Status(e) = "PENDING") <=> LastIs(e, "user")
         /\ (Status(e) = "SETTLED") <=> LastIs(e, "ai")

\* C5: a first submit with content c leaves the stored thread [user c] with
\* status PENDING, and a reply r applied to a thread whose last turn is a
\* user turn appends exactly the assistant turn r and leaves status SETTLED.
C5_SubmitThenReply ==
  [][\A i \in Ids :
       /\ SubmitStep(i) =>
            /\ History(bubbleMessages'[i]) = <<U(lastOp'.text)>>
            /\ Status(bubbleMessages'[i]) = "PENDING"
       /\ (ReplyStep(i) /\ LastIs(bubbleMessages[i], "user")) =>
            /\ History(bubbleMessages'[i]) =
                 Append(History(bubbleMessages[i]), A(lastOp'.text))
            /\ Status(bubbleMessages'[i]) = "SETTLED"]_vars

\* C6: a reply for an id that has no thread leaves for it the thread
\* [user s, ai r] with status SETTLED, s being the text of the id's highlight
\* span in the document (empty when there is none), and changes no other
\* thread.
C6_OrphanReplySeeded ==
  [][\A i \in Ids :
       (ReplyStep(i) /\ bubbleMessages[i] = NoEntry)
         => /\ bubbleMessages'[i] # NoEntry
            /\ History(bubbleMessages'[i]) =
                 <<U(IF span[i] = NoSpan THEN "" ELSE span[i]), A(lastOp'.text)>>
            /\ Status(bubbleMessages'[i]) = "SETTLED"
            /\ \A j \in Ids \ {i} : bubbleMessages'[j] = bubbleMessages[j]]_vars

\* C6 witness: a thread seeded from the text of a span still in the document
\* while another anchor has a thread of its own.
C6_Witness ==
  \E i \in Ids :
    /\ lastOp.op = "reply" /\ lastOp.id = i
    /\ span[i] \in Snippets
    /\ bubbleMessages[i] # NoEntry
    /\ History(bubbleMessages[i]) = <<U(span[i]), A(lastOp.text)>>
    /\ \E j \in Ids \ {i} : bubbleMessages[j] # NoEntry

LiveSockets == {s \in Sockets : readyState[s] \in {"CONNECTING", "OPEN"}}

\* C7: at most one physical connection is connecting or open, counting the
\* connections of every component.
C7_OnePhysicalConnection ==
  Cardinality(LiveSockets) + (IF docReadyState \in {"CONNECTING", "OPEN"} THEN 1 ELSE 0) <= 1

Acquiring == lastOp'.op \in {"mount", "whenSocketOpen"}

\* C8: getWebSocket keeps a channel that is CONNECTING or OPEN, constructs a
\* new CONNECTING one exactly when there is none or the current one is
\* CLOSING or CLOSED; a failure only moves a socket to CLOSED, and no socket
\* is constructed outside a getWebSocket / whenSocketOpen call.
C8_AcquireLazily ==
  [][/\ (Acquiring /\ ws # NoSocket /\ readyState[ws] \in {"CONNECTING", "OPEN"})
          => (ws' = ws /\ readyState' = readyState)
     /\ (Acquiring /\ (ws = NoSocket \/ readyState[ws] \in {"CLOSING", "CLOSED"}))
          => (ws' # ws /\ readyState[ws'] = "UNINITIALIZED" /\ readyState'[ws'] = "CONNECTING")
     /\ ws' # ws => Acquiring
     /\ \A s \in Sockets :
          (readyState[s] = "UNINITIALIZED" /\ readyState'[s] # "UNINITIALIZED")
            => (Acquiring /\ s = ws')
     /\ lastOp'.op = "closed" =>
          /\ ws' = ws
          /\ \A s \in Sockets :
               readyState'[s] # readyState[s] => readyState'[s] = "CLOSED"]_vars

\* C8 witness: the first channel is closing or closed and a whenSocketOpen
\* call has just constructed the second, which is CONNECTING.
C8_Witness ==
  /\ lastOp.op = "whenSocketOpen"
  /\ ws = 2
  /\ readyState[1] \in {"CLOSING", "CLOSED"}
  /\ readyState[2] = "CONNECTING"

\* C9: a whenSocketOpen callback is invoked at most once, inside the call
\* when the channel is OPEN at call time, and otherwise only with its channel
\* OPEN: never while that channel is CONNECTING, CLOSING or CLOSED.
C9_CallbackOnlyWhenOpen ==
  \A k \in 1..Len(calls) :
    LET c == calls[k]
    IN /\ c.fired <= 1
       /\ c.atCall = "OPEN" => c.fired = 1
       /\ c.fired = 1 => c.atFire = "OPEN"
       /\ (c.atCall # "OPEN" /\ readyState[c.sock] = "CONNECTING") => c.fired = 0

\* C9 witness: one callback ran inside its call, another was registered on a
\* channel that then failed and has not run.
C9_Witness ==
  \E k, m \in 1..Len(calls) :
    /\ calls[k].atCall = "OPEN" /\ calls[k].fired = 1
    /\ calls[m].atCall = "CONNECTING" /\ calls[m].fired = 0
    /\ readyState[calls[m].sock] = "CLOSED"

\* C10: a callback registered while its channel is CONNECTING has been
\* invoked, once, as soon as that channel is OPEN.
C10_DeferredCallbackFires ==
  \A k \in 1..MaxCallbacks :
    (Len(calls) >= k /\ calls[k].atCall = "CONNECTING" /\ readyState[calls[k].sock] = "OPEN")
      ~> (Len(calls) >= k /\ calls[k].fired = 1 /\ calls[k].atFire = "OPEN")

\* C10 witness: two callbacks deferred on the same CONNECTING channel have
\* both run on its transition to OPEN.
C10_Witness ==
  /\ Len(calls) >= 2
  /\ \A k \in 1..2 :
       calls[k].atCall = "CONNECTING" /\ calls[k].fired = 1 /\ calls[k].atFire = "OPEN"
  /\ calls[1].sock = calls[2].sock

\* ------------------------------------------- claims on frames and resets
\* The components subscribed to a kind on the shared channel.
Subscribers(kind) ==
  IF kind = "matrix" THEN {"MatrixPlayground"}
  ELSE IF kind = "chat-reply" THEN {"ChatBar"}
  ELSE {}

\* A message event on a shared socket / the session reset it may trigger.
MessageStep(s) == lastOp'.op = "message" /\ lastOp'.id = s
ResetStep == lastOp'.op = "message" /\ "MatrixPlayground" \in lastOp'.got
FollowUpStep(i) == lastOp'.op = "followup" /\ lastOp'.id = i
CreateStep(i) == lastOp'.op = "createComment" /\ lastOp'.id = i

IsChatLine(l) == l.src \in {"user", "assistant"}

\* C11: every well-formed frame arriving on the shared channel is handed,
\* once and in arrival order, to every subscriber of its kind: a narration
\* frame replaces the transcript by its line, a chat-reply frame appends
\* exactly its line, and no frame is lost, merged or duplicated.
C11_FanOutInOrder ==
  [][\A s \in Sockets :
       (MessageStep(s) /\ lastOp'.frame \in WellFormedFrames)
         => /\ lastOp'.got = Subscribers(lastOp'.frame.kind)
            /\ lastOp'.frame.kind = "matrix"
                 => paras' = <<ChatLine("narration", lastOp'.frame.text)>>
            /\ lastOp'.frame.kind = "chat-reply"
                 => paras' = Append(paras, ChatLine("assistant", lastOp'.frame.text))]_vars

\* C12: a new-base-narration event with line L leaves the transcript [L],
\* no anchor (no highlight span in the document) and no thread in the store.
C12_ResetClearsAll ==
  [][ResetStep =>
       /\ paras' = <<ChatLine("narration", lastOp'.frame.text)>>
       /\ \A i \in Ids : bubbleMessages'[i] = NoEntry
       /\ \A i \in Ids : span'[i] = NoSpan]_vars

\* C13: the chat lines (user questions, chat replies) of the transcript are
\* still in the transcript after a new-base-narration event.
C13_ChatLinesSurviveReset ==
  [][ResetStep =>
       \A k \in 1..Len(paras) :
         IsChatLine(paras[k]) => \E m \in 1..Len(paras') : paras'[m] = paras[k]]_vars

\* C14: a bubble that outlived a session reset (its thread was cleared) never
\* displays a reply and never accepts a follow-up for its old anchor id.
C14_ResetInvalidatesBindings ==
  [][\A i \in Ids :
       (bubble[i] # NoBubble /\ bubbleMessages[i] = NoEntry)
         => /\ ~FollowUpStep(i)
            /\ ReplyStep(i) => bubble'[i] = bubble[i]]_vars

\* C15: the ids that have a thread are exactly the ids of the live anchors
\* (the highlight spans in the document).
C15_ThreadsMatchAnchors ==
  {i \in Ids : bubbleMessages[i] # NoEntry} = {i \in Ids : span[i] # NoSpan}

\* C16: every frame handed to send() is handed to a socket that is OPEN at
\* that moment.
C16_SendsOnlyWhenOpen ==
  [][\A a \in lastOp'.tried : a.state = "OPEN"]_vars

\* C17: createAnchor returns an id no anchor, bubble or thread has yet, and
\* leaves the threads of the existing anchors as they are.
C17_AnchorIdsUnique ==
  [][\A i \in Ids :
       CreateStep(i)
         => /\ span[i] = NoSpan /\ bubble[i] = NoBubble /\ bubbleMessages[i] = NoEntry
            /\ \A j \in Ids :
                 bubbleMessages[j] # NoEntry => bubbleMessages'[j] = bubbleMessages[j]]_vars

\* C18: every turn of every stored thread has non-empty content.
C18_TurnsNonEmpty ==
  \A i \in Ids :
    \A k \in 1..Len(History(bubbleMessages[i])) :
      History(bubbleMessages[i])[k].content # ""

StatusOf(e) == IF e = NoEntry THEN "NONE" ELSE Status(e)

\* C19: a thread's status changes only DRAFT -> PENDING by a submit,
\* PENDING -> SETTLED by a reply, SETTLED -> PENDING by a follow-up submit,
\* or by removal in a session reset; a thread starts in DRAFT (createAnchor)
\* or, synthesized by an orphan reply, in SETTLED, and never returns to
\* DRAFT; a follow-up on a SETTLED thread is always accepted.
C19_StatusTransitions ==
  [][\A i \in Ids :
       LET a == StatusOf(bubbleMessages[i])
           b == StatusOf(bubbleMessages'[i])
       IN /\ a # b =>
               \/ a = "NONE" /\ b = "DRAFT" /\ CreateStep(i)
               \/ a = "NONE" /\ b = "SETTLED" /\ ReplyStep(i)
               \/ a = "DRAFT" /\ b = "PENDING" /\ SubmitStep(i)
               \/ a = "PENDING" /\ b = "SETTLED" /\ ReplyStep(i)
               \/ a = "SETTLED" /\ b = "PENDING" /\ FollowUpStep(i)
               \/ b = "NONE" /\ ResetStep
          /\ (a = "SETTLED" /\ FollowUpStep(i)) =>
               /\ b = "PENDING"
               /\ History(bubbleMessages'[i]) =
                    Append(History(bubbleMessages[i]), U(lastOp'.text))]_vars

\* What a dispatched well-formed frame does.
Dispatched ==
  /\ \A s \in Sockets :
       (MessageStep(s) /\ s = wsRef) =>
         /\ lastOp'.got = Subscribers(lastOp'.frame.kind)
         /\ lastOp'.frame.kind = "matrix"
              => paras' = <<ChatLine("narration", lastOp'.frame.text)>>
         /\ lastOp'.frame.kind = "chat-reply"
              => paras' = Append(paras, ChatLine("assistant", lastOp'.frame.text))
  /\ (lastOp'.op = "docMessage" /\ lastOp'.frame.kind = "chat-reply")
       => paras' = Append(paras, ChatLine("assistant", lastOp'.frame.text))
  /\ \A i \in Ids :
       ReplyStep(i) => /\ bubbleMessages'[i] # NoEntry
                       /\ bubbleMessages'[i].aiReply = lastOp'.frame.text

\* C20: a frame that is not valid JSON, is not an object or has no kind
\* changes neither the transcript nor any anchor, bubble or thread (nor the
\* sockets and their listeners), and every well-formed frame that arrives
\* after it on a socket with listeners is dispatched to them.
C20_MalformedFrameDropped ==
  [][/\ lastOp'.frame \in MalformedFrames
          => UNCHANGED <<paras, span, bubble, bubbleMessages, chanVars, docReadyState, mounted>>
     /\ (malformed /\ lastOp'.frame \in WellFormedFrames) => Dispatched]_vars

\* C20 witness: after a malformed frame was dropped, a reply frame has been
\* applied to the thread of an anchor of the current transcript.
C20_Witness ==
  /\ malformed
  /\ lastOp.op = "reply"
  /\ paras # <<>>
  /\ span[lastOp.id] # NoSpan
  /\ bubbleMessages[lastOp.id] # NoEntry
  /\ bubbleMessages[lastOp.id].aiReply = lastOp.text
  /\ Len(History(bubbleMessages[lastOp.id])) = 2

\* ------------------------------------- claims on inputs and attribution
\* C21: a well-formed frame of a kind no listener consumes (comment, chat,
\* an unknown kind) is handled without an exception and leaves the
\* transcript, the spans, the bubbles and every thread unchanged.
C21_UnconsumedKindIgnored ==
  [][(lastOp'.frame \in WellFormedFrames /\ lastOp'.frame.kind \notin ConsumedKinds)
       => /\ UNCHANGED <<paras, span, bubble, bubbleMessages>>
          /\ lastOp'.got = {}
          /\ ~Throws(lastOp'.frame)]_vars

\* C21 witness: a frame of an unconsumed kind has just been handled while a
\* settled thread, its anchor and a transcript exist.
C21_Witness ==
  /\ lastOp.op \in {"message", "docMessage"}
  /\ lastOp.frame \in WellFormedFrames
  /\ lastOp.frame.kind \in {"pong", "comment", "chat"}
  /\ paras # <<>>
  /\ \E i \in Ids : /\ span[i] # NoSpan
                    /\ bubbleMessages[i] # NoEntry
                    /\ Len(History(bubbleMessages[i])) = 2

Blank(v) == \A k \in 1..Len(v) : v[k] \in Whitespace

FormStep(i) ==
  /\ lastOp'.op \in {"submit", "submitIgnored", "followup", "followupIgnored"}
  /\ lastOp'.id = i

\* C22: a comment or follow-up submitted with an empty or whitespace-only
\* textarea appends no turn, leaves the thread, its status and the bubble
\* as they are, and hands no frame to send().
C22_BlankSubmitIsNoOp ==
  [][\A i \in Ids :
       (FormStep(i) /\ Blank(lastOp'.value))
         => /\ bubbleMessages' = bubbleMessages
            /\ bubble' = bubble
            /\ lastOp'.tried = {} /\ lastOp'.sent = {}]_vars

\* C22 witness: a whitespace-only follow-up was just submitted on a settled
\* thread while the document's socket is open; the thread is still settled.
C22_Witness ==
  /\ lastOp.op = "followupIgnored"
  /\ lastOp.value # <<>> /\ Blank(lastOp.value)
  /\ docReadyState = "OPEN"
  /\ bubbleMessages[lastOp.id] # NoEntry
  /\ Status(bubbleMessages[lastOp.id]) = "SETTLED"
  /\ Len(History(bubbleMessages[lastOp.id])) = 2
  /\ bubble[lastOp.id].form = "followup"

\* C23: a comment or follow-up submitted for an id with no live anchor
\* (never created, or removed by a reset) creates no thread, appends no
\* turn and hands no comment frame to send().
C23_SubmitWithoutAnchorRejected ==
  [][\A i \in Ids :
       ((SubmitStep(i) \/ FollowUpStep(i)) /\ span[i] = NoSpan)
         => /\ bubbleMessages'[i] = bubbleMessages[i]
            /\ lastOp'.tried = {}]_vars

\* C24: every anchor has a non-empty snippet: no span in the document (and
\* so no thread created with it) wraps an empty or whitespace-only text.
C24_AnchorsHaveSnippet ==
  \A i \in Ids : span[i] # NoSpan => Text(Trim(Tokens(span[i]))) # ""

IsPrefix(h, g) == Len(h) <= Len(g) /\ SubSeq(g, 1, Len(h)) = h

\* C25: chat activity only appends to the transcript: every step other
\* than a narration reset leaves the lines already in the transcript in
\* place and in order, a chat-reply adds exactly its line at the end, and
\* the chat sends that run add only the users' lines at the end.
C25_ChatOnlyAppends ==
  [][/\ ~ResetStep => IsPrefix(paras, paras')
     /\ (lastOp'.op \in {"message", "docMessage"} /\ lastOp'.frame.form = "object"
           /\ lastOp'.frame.kind = "chat-reply" /\ lastOp'.got # {})
          => paras' = Append(paras, ChatLine("assistant", lastOp'.frame.text))
     /\ lastOp'.op \in {"whenSocketOpen", "open"}
          => \A k \in (Len(paras) + 1)..Len(paras') :
                \E t \in ChatInputs : paras'[k] = ChatLine("user", t)]_vars

\* C25 witness: a chat-reply has just been appended to a transcript that
\* already held the narration and the user's chat line, both still there.
C25_Witness ==
  /\ lastOp.op = "message"
  /\ lastOp.frame = ChatReplyFrame("hello")
  /\ Len(paras) = 3
  /\ paras[1].src = "narration"
  /\ paras[2] = ChatLine("user", "hi")
  /\ paras[3] = ChatLine("assistant", "hello")

HasUserTurn(e, content) ==
  e # NoEntry /\ \E k \in 1..Len(History(e)) : History(e)[k] = U(content)

\* C26: whenever a handler has sent a comment frame for (id, content), the
\* thread of id contains the USER turn with that content when the handler
\* returns.
C26_SentImpliesShown ==
  [][\A fr \in lastOp'.sent :
       fr.kind = "comment" => HasUserTurn(bubbleMessages'[fr.targetId], fr.text)]_vars

\* C27: no store write is computed from a stale snapshot: the thread a
\* submit leaves in the store is what updateBubbleContent computes when it
\* reads the store's current value, the optimistic entry the same handler
\* wrote just before, so the USER turn just appended is still there.
C27_SubmitReadsCurrentStore ==
  [][\A i \in Ids :
       SubmitStep(i) =>
         LET optimistic == InitialConversation(lastOp'.text)
             current    == [bubbleMessages EXCEPT ![i] = optimistic]
         IN bubbleMessages'[i] =
              UpdateBubbleContentStore(current, optimistic, i, lastOp'.text)]_vars

\* C28: replies are attributed to the turn they answer: with a service
\* that sends at most MaxReplies replies per comment, every ASSISTANT turn
\* of a stored thread carries the reply to the USER turn directly before it.
C28_RepliesAttributed ==
  \A i \in Ids :
    \A p \in 2..Len(History(bubbleMessages[i])) :
      LET h == History(bubbleMessages[i])
      IN (h[p].role = "ai" /\ h[p - 1].role = "user")
           => h[p].content = AnswerTo(h[p - 1].content)

\* C29: between two resets each thread's turn sequence only grows at the
\* end: every step that is not a narration reset leaves the turns a thread
\* had as a prefix of the turns it has afterwards.
C29_TurnsOnlyGrow ==
  [][~ResetStep =>
       \A i \in Ids : IsPrefix(History(bubbleMessages[i]), History(bubbleMessages'[i]))]_vars

\* C30: after every reply processed for an anchor with a bubble, the
\* conversation rendered in the bubble equals the stored thread.
C30_RenderedEqualsStored ==
  [][\A i \in Ids :
       (ReplyStep(i) /\ bubble[i] # NoBubble)
         => bubble'[i].shown = History(bubbleMessages'[i])]_vars

\* ------------------------------------ claims on re-created channels
\* C31: a subscriber whose message handler was registered before the
\* channel was closed and re-created receives every matching frame that
\* arrives on the re-created channel.
C31_ListenersFollowChannel ==
  [][\A s \in Sockets :
       (MessageStep(s) /\ s = ws /\ s # wsRef /\ lastOp'.frame \in WellFormedFrames)
         => Subscribers(lastOp'.frame.kind) \subseteq lastOp'.got]_vars

\* C32: a callback registered while a channel is CONNECTING is eventually
\* invoked once some channel is OPEN, also when its own channel failed and
\* a later getWebSocket constructed the channel that opened.
C32_DeferredCallbackSurvivesFailure ==
  \A k \in 1..MaxCallbacks :
    (Len(calls) >= k /\ calls[k].atCall = "CONNECTING"
       /\ \E s \in Sockets : readyState[s] = "OPEN")
      ~> (Len(calls) >= k /\ calls[k].fired = 1)

\* C33: a frame sent by a whenSocketOpen callback of ChatBar or
\* MatrixPlayground is handed to the current shared channel, the one whose
\* OPEN state let the callback run, never to a channel that was replaced.
C33_CallbackSendsOnCurrentChannel ==
  [][lastOp'.op \in {"open", "whenSocketOpen"} =>
       \A a \in lastOp'.tried :
         /\ a.frame.sock = ws'
         /\ lastOp'.op = "open" => a.frame.sock = lastOp'.id]_vars

\* C34: each chat-reply frame received, on the shared channel or on the
\* document's own socket, adds exactly one line to the transcript, and a
\* chat submission whose callback runs adds exactly one user line.
C34_OneLinePerChatFrame ==
  [][/\ (lastOp'.op \in {"message", "docMessage"} /\ lastOp'.frame \in WellFormedFrames
           /\ lastOp'.frame.kind = "chat-reply")
          => /\ Len(paras') = Len(paras) + 1
             /\ Last(paras') = ChatLine("assistant", lastOp'.frame.text)
     /\ (lastOp'.op = "whenSocketOpen" /\ lastOp'.text = "chat" /\ lastOp'.tried # {})
          => /\ Len(paras') = Len(paras) + 1
             /\ \E t \in ChatInputs : Last(paras') = ChatLine("user", t)]_vars

\* ------------------------------------------- claims on the service
\* The run has used up its events or frames: no further reply can be modelled.
Exhausted == events = MaxEvents \/ frames = MaxFrames

\* C35: with a service that sends exactly one reply for every comment it
\* receives, a thread that is PENDING eventually is SETTLED with an
\* ASSISTANT turn last, unless a reset (or a re-creation of the anchor)
\* removes the pending thread first.
C35_PendingEventuallySettled ==
  \A i \in Ids :
    (bubbleMessages[i] # NoEntry /\ Status(bubbleMessages[i]) = "PENDING")
      ~> \/ bubbleMessages[i] = NoEntry
         \/ Status(bubbleMessages[i]) = "DRAFT"
         \/ Status(bubbleMessages[i]) = "SETTLED" /\ LastIs(bubbleMessages[i], "ai")
         \/ Exhausted

\* C36: a comment frame that is sent carries isFollowup = true exactly
\* when the thread of its targetId held at least one turn before the
\* submit.
C36_FollowupFlagMatchesThread ==
  [][\A fr \in lastOp'.sent :
       fr.kind = "comment"
         => (fr.isFollowup <=> History(bubbleMessages[fr.targetId]) # <<>>)]_vars

\* ------------------------------------------- claims on the debounce
MatrixCalls == {k \in 1..Len(calls) : calls[k].who = "matrix"}

\* Every scheduled matrix send has run: no timer is pending and no
\* callback is waiting for its socket to open.
Settled ==
  /\ ~dragging
  /\ sendTimeout = NoTimer
  /\ \A k \in MatrixCalls : calls[k].fired = 1

====
